---- MODULE Spec2Model ----
(***************************************************************************)
(* Model of src/lambda_function.py: one invocation of lambda_handler, from *)
(* the read of the environment to the returned result.  The billing client *)
(* (ce) and the mail client (ses) are external collaborators: each call    *)
(* either raises or returns one of a bounded set of responses.             *)
(*                                                                         *)
(* Amounts are integers (whole currency units); the literal 1.0 is One and *)
(* 0.0 is Zero.  A bar width is kept in hundredths of a percent, the       *)
(* resolution at which build_html_body prints it.                          *)
(***************************************************************************)
EXTENDS Integers, Sequences, FiniteSets, TLC

\* ---- bounds of the model ----
MaxGroups == 3
MaxAmount == 2

\* ---- literals of the program ----
Zero == 0
One == 1
Hundred == 100
Places == 100
AccountField == 4

None == "None"
Services == {"EC2", "S3"}
Addresses == {"ops@example.com"}
EnvKeys == {"SENDER_EMAIL", "RECIPIENT_EMAIL"}

\* The 'Amount' strings a response can carry: decimal text, or text that
\* float() rejects.
Num(n) == [kind |-> "num", val |-> n]
BadText == [kind |-> "bad", val |-> 0]
AmountTexts == {Num(n) : n \in -1..MaxAmount} \cup {BadText}

\* float(text): the parsed number, or ValueError (ok = FALSE).
float(text) == [ok |-> text.kind = "num", val |-> text.val]

\* os.environ: any subset of the two recognised keys may be set.
Environments == UNION {[K -> Addresses] : K \in SUBSET EnvKeys}

\* os.environ.get(key): no default argument is given, so an absent key
\* yields None.
environ_get(env, key) == IF key \in DOMAIN env THEN env[key] ELSE None

\* context.invoked_function_arn, as the list split(":") produces.
Arns == { <<"arn", "aws", "lambda", "ap-southeast-1", "123456789012", "function", "report">>,
          <<"malformed">> }

\* split(":")[4]: IndexError when the list is too short (Python indexes from 0).
account_id_of(arn) ==
    IF Len(arn) > AccountField
        THEN [ok |-> TRUE, val |-> arn[AccountField + 1]]
        ELSE [ok |-> FALSE, val |-> None]

\* Groups of a month-to-date bucket: (Keys[0], Amount) pairs, names may repeat.
Group == [service : Services, amount : AmountTexts]
GroupSeqs == UNION {[1..n -> Group] : n \in 0..MaxGroups}

\* Responses of ce.get_cost_and_usage grouped by SERVICE: no bucket, or one
\* bucket with its groups.
MtdResponses ==
    {[ResultsByTime |-> <<>>]} \cup
    {[ResultsByTime |-> <<[Groups |-> g]>>] : g \in GroupSeqs}

\* Responses of ce.get_cost_forecast: Total.Amount text.
ForecastResponses == {[Amount |-> Num(MaxAmount)], [Amount |-> BadText]}

\* Responses of the ungrouped daily ce.get_cost_and_usage.
DailyResponses ==
    {[ResultsByTime |-> <<>>]} \cup
    {[ResultsByTime |-> <<[Amount |-> a]>>] : a \in {Num(One), BadText}}

NoResponse == [ResultsByTime |-> <<>>]
NoDailyResponse == [ResultsByTime |-> <<[Amount |-> BadText]>>]
NoBody == [total |-> 0, daily |-> 0, forecast |-> 0, service_rows |-> <<>>]
NoRequest == [Source |-> None, ToAddresses |-> <<>>]
NoResult == [statusCode |-> 0, body |-> ""]

VARIABLES
    pc,                 \* position in lambda_handler
    environ,            \* os.environ
    sender_email, recipient_email, aws_account_id,
    service_breakdown, forecasted_cost, daily_cost_response, daily_cost,
    service_costs,      \* dict, as its items in insertion order
    total_cost, sorted_services, max_cost, body,
    calls,              \* collaborator operations invoked so far, in order
    raised_by,          \* the collaborator operations that raised
    ses_request,        \* arguments of the last ses.send_email call
    outcome,            \* "running", "returned" or "raised" (exception escaped)
    result,             \* the returned dict
    error               \* the step whose exception the handler caught

locals == <<sender_email, recipient_email, aws_account_id, service_breakdown,
            forecasted_cost, daily_cost_response, daily_cost, service_costs, total_cost,
            sorted_services, max_cost, body>>
vars == <<pc, environ, locals, calls, raised_by, ses_request, outcome, result, error>>

\* ---- pure parts of the handler ----

\* service_costs[name] = amount on a dict kept as its item list: an existing
\* key keeps its position and takes the new value, a new key is appended.
DictSet(items, name, amount) ==
    IF \E i \in 1..Len(items) : items[i].service = name
        THEN [i \in 1..Len(items) |->
                 IF items[i].service = name
                     THEN [service |-> name, cost |-> amount]
                     ELSE items[i]]
        ELSE Append(items, [service |-> name, cost |-> amount])

\* The loop of lines 62-67 from group i on; acc carries service_costs and
\* total_cost.  A float() failure ends the loop with ok = FALSE.
RECURSIVE Aggregate(_, _, _)
Aggregate(groups, i, acc) ==
    IF i > Len(groups) THEN acc
    ELSE LET cost_amount == float(groups[i].amount) IN
         IF ~cost_amount.ok
             THEN [acc EXCEPT !.ok = FALSE]
         ELSE IF cost_amount.val > Zero
             THEN Aggregate(groups, i + 1,
                     [ok |-> TRUE,
                      service_costs |-> DictSet(acc.service_costs,
                                                groups[i].service, cost_amount.val),
                      total_cost |-> acc.total_cost + cost_amount.val])
         ELSE Aggregate(groups, i + 1, acc)

\* Insert x into a list already in descending order of cost, after every
\* element whose cost is >= x.cost (sorted() is stable, also with reverse=True).
RECURSIVE InsertDesc(_, _)
InsertDesc(x, s) ==
    IF s = <<>> THEN <<x>>
    ELSE IF Head(s).cost >= x.cost
        THEN <<Head(s)>> \o InsertDesc(x, Tail(s))
        ELSE <<x>> \o s

RECURSIVE SortAscending(_)
SortAscending(items) ==
    IF items = <<>> THEN <<>>
    ELSE LET rest == SortAscending(SubSeq(items, 1, Len(items) - 1))
             x == items[Len(items)]
             k == Cardinality({i \in 1..Len(rest) : rest[i].cost <= x.cost})
         IN SubSeq(rest, 1, k) \o <<x>> \o SubSeq(rest, k + 1, Len(rest))

\* sorted(service_costs.items(), key=lambda item: item[1], reverse=True)
RECURSIVE sorted_by_cost(_)
sorted_by_cost(items) ==
    IF items = <<>> THEN <<>>
    ELSE InsertDesc(items[Len(items)],
                    sorted_by_cost(SubSeq(items, 1, Len(items) - 1)))

max_cost_last(sorted) ==
    IF sorted # <<>> THEN sorted[Len(sorted)].cost ELSE One

\* max_cost = sorted_services[0][1] if sorted_services else 1.0
max_cost_of(sorted) ==
    IF sorted # <<>> THEN sorted[1].cost ELSE One

\* bar_width = (cost / max_cost) * 100 if max_cost > 0 else 0, in hundredths
\* of a percent, rounded to nearest as "{bar_width:.2f}" prints it.
bar_width_of(cost, maxc) ==
    IF maxc > Zero
        THEN (2 * cost * Hundred * Places + maxc) \div (2 * maxc)
        ELSE 0

\* build_html_body: the figures of the summary box and one row per service.
build_html_body(total, forecast, daily, services, maxc) ==
    [total |-> total, daily |-> daily, forecast |-> forecast,
     service_rows |-> [i \in 1..Len(services) |->
        [service |-> services[i].service,
         cost |-> services[i].cost,
         bar_width |-> bar_width_of(services[i].cost, maxc)]]]

daily_cost_unguarded(resp) ==
    IF resp.ResultsByTime # <<>>
        THEN float(resp.ResultsByTime[1].Amount)
        ELSE [ok |-> FALSE, val |-> 0]

\* float(resp['ResultsByTime'][0][...]['Amount']) if resp['ResultsByTime'] else 0.0
daily_cost_of(resp) ==
    IF resp.ResultsByTime # <<>>
        THEN float(resp.ResultsByTime[1].Amount)
        ELSE [ok |-> TRUE, val |-> Zero]

\* ---- the handler ----

Init ==
    /\ pc = "config"
    /\ environ \in Environments
    /\ sender_email = None
    /\ recipient_email = None
    /\ aws_account_id = None
    /\ service_breakdown = NoResponse
    /\ forecasted_cost = 0
    /\ daily_cost_response = NoDailyResponse
    /\ daily_cost = 0
    /\ service_costs = <<>>
    /\ total_cost = 0
    /\ sorted_services = <<>>
    /\ max_cost = 0
    /\ body = NoBody
    /\ calls = <<>>
    /\ raised_by = {}
    /\ ses_request = NoRequest
    /\ outcome = "running"
    /\ result = NoResult
    /\ error = "none"

\* except Exception as e: ... return {'statusCode': 500, ...}
Caught(step) ==
    /\ pc' = "done"
    /\ outcome' = "returned"
    /\ result' = [statusCode |-> 500, body |-> "An error occurred"]
    /\ error' = step

Continue(next) ==
    /\ pc' = next
    /\ UNCHANGED <<outcome, result, error>>

\* Lines 25-27: configuration.
ConfigureWithDefaults ==
    /\ pc = "config"
    /\ \E arn \in Arns :
         LET acct == account_id_of(arn) IN
         /\ sender_email' = IF "SENDER_EMAIL" \in DOMAIN environ
                               THEN environ["SENDER_EMAIL"] ELSE "default@example.com"
         /\ recipient_email' = IF "RECIPIENT_EMAIL" \in DOMAIN environ
                               THEN environ["RECIPIENT_EMAIL"] ELSE "default@example.com"
         /\ aws_account_id' = acct.val
         /\ IF acct.ok THEN Continue("mtd") ELSE Caught("config")
    /\ UNCHANGED <<environ, service_breakdown, forecasted_cost, daily_cost_response, daily_cost,
                   service_costs, total_cost, sorted_services, max_cost, body,
                   calls, raised_by, ses_request>>

Configure ==
    /\ pc = "config"
    /\ \E arn \in Arns :
         LET acct == account_id_of(arn) IN
         /\ sender_email' = environ_get(environ, "SENDER_EMAIL")
         /\ recipient_email' = environ_get(environ, "RECIPIENT_EMAIL")
         /\ aws_account_id' = acct.val
         /\ IF acct.ok THEN Continue("mtd") ELSE Caught("config")
    /\ UNCHANGED <<environ, service_breakdown, forecasted_cost, daily_cost_response, daily_cost,
                   service_costs, total_cost, sorted_services, max_cost, body,
                   calls, raised_by, ses_request>>

\* Lines 39-44: the grouped month-to-date query.
QueryMonthToDate ==
    /\ pc = "mtd"
    /\ calls' = Append(calls, "mtd")
    /\ \/ /\ raised_by' = raised_by \cup {"mtd"}
          /\ Caught("mtd")
          /\ UNCHANGED service_breakdown
       \/ \E resp \in MtdResponses :
          /\ service_breakdown' = resp
          /\ Continue("forecast")
          /\ UNCHANGED raised_by
    /\ UNCHANGED <<environ, sender_email, recipient_email, aws_account_id,
                   forecasted_cost, daily_cost_response, daily_cost, service_costs,
                   total_cost, sorted_services, max_cost, body, ses_request>>

\* Lines 45-50: the forecast query and the parse of its amount.
QueryForecastSwallowing ==
    /\ pc = "forecast"
    /\ calls' = Append(calls, "forecast")
    /\ \/ /\ raised_by' = raised_by \cup {"forecast"}
          /\ Continue("daily")
          /\ UNCHANGED forecasted_cost
       \/ \E resp \in ForecastResponses :
          LET amount == float(resp.Amount) IN
          /\ UNCHANGED raised_by
          /\ IF amount.ok
                THEN forecasted_cost' = amount.val /\ Continue("daily")
                ELSE UNCHANGED forecasted_cost /\ Caught("forecast")
    /\ UNCHANGED <<environ, sender_email, recipient_email, aws_account_id,
                   service_breakdown, daily_cost_response, daily_cost, service_costs,
                   total_cost, sorted_services, max_cost, body, ses_request>>

QueryForecast ==
    /\ pc = "forecast"
    /\ calls' = Append(calls, "forecast")
    /\ \/ /\ raised_by' = raised_by \cup {"forecast"}
          /\ Caught("forecast")
          /\ UNCHANGED forecasted_cost
       \/ \E resp \in ForecastResponses :
          LET amount == float(resp.Amount) IN
          /\ UNCHANGED raised_by
          /\ IF amount.ok
                THEN forecasted_cost' = amount.val /\ Continue("daily")
                ELSE UNCHANGED forecasted_cost /\ Caught("forecast")
    /\ UNCHANGED <<environ, sender_email, recipient_email, aws_account_id,
                   service_breakdown, daily_cost_response, daily_cost, service_costs,
                   total_cost, sorted_services, max_cost, body, ses_request>>

\* Lines 51-58: the daily query and the guarded read of its first bucket.
QueryDaily ==
    /\ pc = "daily"
    /\ calls' = Append(calls, "daily")
    /\ \/ /\ raised_by' = raised_by \cup {"daily"}
          /\ Caught("daily")
          /\ UNCHANGED <<daily_cost_response, daily_cost>>
       \/ \E resp \in DailyResponses :
          LET amount == daily_cost_of(resp) IN
          /\ UNCHANGED raised_by
          /\ daily_cost_response' = resp
          /\ IF amount.ok
                THEN daily_cost' = amount.val /\ Continue("process")
                ELSE UNCHANGED daily_cost /\ Caught("daily")
    /\ UNCHANGED <<environ, sender_email, recipient_email, aws_account_id,
                   service_breakdown, forecasted_cost, service_costs, total_cost,
                   sorted_services, max_cost, body, ses_request>>

ProcessTolerant ==
    /\ pc = "process"
    /\ LET groups == IF service_breakdown.ResultsByTime = <<>>
                        THEN <<>> ELSE service_breakdown.ResultsByTime[1].Groups
           agg == Aggregate(groups, 1,
                      [ok |-> TRUE, service_costs |-> <<>>, total_cost |-> Zero])
       IN IF ~agg.ok
             THEN /\ Caught("process")
                  /\ UNCHANGED <<service_costs, total_cost, sorted_services, max_cost>>
             ELSE /\ service_costs' = agg.service_costs
                  /\ total_cost' = agg.total_cost
                  /\ sorted_services' = sorted_by_cost(agg.service_costs)
                  /\ max_cost' = max_cost_of(sorted_by_cost(agg.service_costs))
                  /\ Continue("build")
    /\ UNCHANGED <<environ, sender_email, recipient_email, aws_account_id,
                   service_breakdown, forecasted_cost, daily_cost_response,
                   daily_cost, body, calls, raised_by, ses_request>>

\* Lines 61-72: aggregation, sort and scaling denominator.  Reading bucket 0
\* of an empty ResultsByTime is an IndexError.
Process ==
    /\ pc = "process"
    /\ IF service_breakdown.ResultsByTime = <<>>
          THEN /\ Caught("process")
               /\ UNCHANGED <<service_costs, total_cost, sorted_services, max_cost>>
          ELSE LET agg == Aggregate(service_breakdown.ResultsByTime[1].Groups, 1,
                              [ok |-> TRUE, service_costs |-> <<>>, total_cost |-> Zero])
               IN IF ~agg.ok
                     THEN /\ Caught("process")
                          /\ UNCHANGED <<service_costs, total_cost,
                                         sorted_services, max_cost>>
                     ELSE /\ service_costs' = agg.service_costs
                          /\ total_cost' = agg.total_cost
                          /\ sorted_services' = sorted_by_cost(agg.service_costs)
                          /\ max_cost' = max_cost_of(sorted_by_cost(agg.service_costs))
                          /\ Continue("build")
    /\ UNCHANGED <<environ, sender_email, recipient_email, aws_account_id,
                   service_breakdown, forecasted_cost, daily_cost_response,
                   daily_cost, body, calls, raised_by, ses_request>>

\* Lines 75-78: subject and body.
Build ==
    /\ pc = "build"
    /\ body' = build_html_body(total_cost, forecasted_cost, daily_cost,
                               sorted_services, max_cost)
    /\ Continue("send")
    /\ UNCHANGED <<environ, sender_email, recipient_email, aws_account_id,
                   service_breakdown, forecasted_cost, daily_cost_response,
                   daily_cost, service_costs, total_cost, sorted_services,
                   max_cost, calls, raised_by, ses_request>>

SendSwallowing ==
    /\ pc = "send"
    /\ calls' = Append(calls, "ses")
    /\ ses_request' = [Source |-> sender_email, ToAddresses |-> <<recipient_email>>]
    /\ \/ raised_by' = raised_by \cup {"ses"}
       \/ UNCHANGED raised_by
    /\ pc' = "done"
    /\ outcome' = "returned"
    /\ result' = [statusCode |-> 200, body |-> "Email sent successfully!"]
    /\ UNCHANGED error
    /\ UNCHANGED <<environ, locals>>

SendUncaught ==
    /\ pc = "send"
    /\ calls' = Append(calls, "ses")
    /\ ses_request' = [Source |-> sender_email, ToAddresses |-> <<recipient_email>>]
    /\ \/ /\ raised_by' = raised_by \cup {"ses"}
          /\ pc' = "done"
          /\ outcome' = "raised"
          /\ UNCHANGED <<result, error>>
       \/ /\ UNCHANGED raised_by
          /\ pc' = "done"
          /\ outcome' = "returned"
          /\ result' = [statusCode |-> 200, body |-> "Email sent successfully!"]
          /\ UNCHANGED error
    /\ UNCHANGED <<environ, locals>>

SendRetrying ==
    /\ pc = "send"
    /\ calls' = Append(calls, "ses")
    /\ ses_request' = [Source |-> sender_email, ToAddresses |-> <<recipient_email>>]
    /\ \/ /\ raised_by' = raised_by \cup {"ses"}
          /\ IF "ses" \in raised_by THEN Caught("send") ELSE Continue("send")
       \/ /\ UNCHANGED raised_by
          /\ pc' = "done"
          /\ outcome' = "returned"
          /\ result' = [statusCode |-> 200, body |-> "Email sent successfully!"]
          /\ UNCHANGED error
    /\ UNCHANGED <<environ, locals>>

\* Lines 79-80 with send_email (172-188): one ses.send_email call.  Its
\* error is printed and re-raised by send_email (line 188), inside the
\* handler's try block, so the handler's except clause (line 83) receives it.
Send ==
    /\ pc = "send"
    /\ calls' = Append(calls, "ses")
    /\ ses_request' = [Source |-> sender_email, ToAddresses |-> <<recipient_email>>]
    /\ \/ /\ raised_by' = raised_by \cup {"ses"}
          /\ Caught("send")
       \/ /\ UNCHANGED raised_by
          /\ pc' = "done"
          /\ outcome' = "returned"
          /\ result' = [statusCode |-> 200, body |-> "Email sent successfully!"]
          /\ UNCHANGED error
    /\ UNCHANGED <<environ, locals>>

Next ==
    \/ Configure
    \/ QueryMonthToDate
    \/ QueryForecast
    \/ QueryDaily
    \/ Process
    \/ Build
    \/ Send

Spec == Init /\ [][Next]_vars

\* ---- properties ----

Count(seq, x) == Cardinality({i \in 1..Len(seq) : seq[i] = x})

RECURSIVE SumCosts(_)
SumCosts(items) ==
    IF items = <<>> THEN 0 ELSE Head(items).cost + SumCosts(Tail(items))

CostsOf(items) == {items[i].cost : i \in 1..Len(items)}

\* Aggregation and sort have completed without error.
Processed == pc \in {"build", "send"} \/ (pc = "done" /\ error \in {"none", "send"})
\* build_html_body has returned.
Rendered == pc = "send" \/ (pc = "done" /\ error \in {"none", "send"})

AllQueries == <<"mtd", "forecast", "daily">>

\* C1 (as amended): when the three queries, aggregation and rendering
\* succeed and ses.send_email raises, the error leaves send_email but is
\* caught by the handler, which returns statusCode 500.
C1_SendErrorReturns500 ==
    (pc = "done" /\ "ses" \in raised_by) =>
        /\ outcome = "returned"
        /\ result.statusCode = 500
        /\ error = "send"

C1_Witness ==
    /\ pc = "done"
    /\ calls = AllQueries \o <<"ses">>
    /\ raised_by = {"ses"}
    /\ result.statusCode = 500

\* C1 (original statement): a send error escapes the invocation and is not
\* turned into a returned result.
C1_Original ==
    (pc = "done" /\ "ses" \in raised_by) =>
        (outcome = "raised" /\ result = NoResult)

\* C2: if ce.get_cost_forecast raises, the handler returns statusCode 500,
\* ses.send_email is never called and the daily query is never issued.
C2_ForecastError ==
    "forecast" \in raised_by =>
        /\ pc = "done"
        /\ outcome = "returned"
        /\ result.statusCode = 500
        /\ Count(calls, "ses") = 0
        /\ Count(calls, "daily") = 0

C2_Witness ==
    /\ "forecast" \in raised_by
    /\ calls = <<"mtd", "forecast">>
    /\ service_breakdown.ResultsByTime # <<>>

\* C3 (original statement): for any sequence of groups, repeated service
\* names included, no amount <= 0 is in sorted_services and total_cost is
\* the sum of the amounts in sorted_services.
C3_Original ==
    Processed =>
        /\ \A i \in 1..Len(sorted_services) : sorted_services[i].cost > Zero
        /\ total_cost = SumCosts(sorted_services)

\* C4: ses.send_email is called at most once per invocation, only after the
\* three queries, aggregation and rendering completed without error; an
\* earlier failure means no call.
C4_SingleSendAfterSuccess ==
    /\ Count(calls, "ses") <= 1
    /\ Count(calls, "ses") = 1 =>
          /\ calls = AllQueries \o <<"ses">>
          /\ raised_by \subseteq {"ses"}
          /\ error \in {"none", "send"}
          /\ body = build_html_body(total_cost, forecasted_cost, daily_cost,
                                    sorted_services, max_cost)
    /\ error \in {"config", "mtd", "forecast", "daily", "process"} =>
          Count(calls, "ses") = 0

C4_Witness ==
    /\ pc = "done"
    /\ Count(calls, "ses") = 1
    /\ "ses" \in raised_by
    /\ Len(body.service_rows) = 2

\* C5: max_cost is the largest retained amount, or 1.0 when nothing is
\* retained, and every rendered row's bar width lies in [0, 100].
C5_MaxCostAndBarWidth ==
    /\ Processed =>
          IF service_costs = <<>>
              THEN max_cost = One
              ELSE /\ max_cost \in CostsOf(service_costs)
                   /\ \A c \in CostsOf(service_costs) : c <= max_cost
    /\ Rendered =>
          \A i \in 1..Len(body.service_rows) :
              /\ body.service_rows[i].bar_width >= 0
              /\ body.service_rows[i].bar_width <= Hundred * Places

C5_Witness ==
    /\ Rendered
    /\ Len(body.service_rows) = 2
    /\ body.service_rows[1].bar_width = Hundred * Places
    /\ body.service_rows[2].bar_width < Hundred * Places
    /\ max_cost = MaxAmount

\* C6: sorted_services is non-increasing in amount over adjacent pairs and
\* is a permutation of the retained entries of service_costs.
C6_SortedPermutation ==
    Processed =>
        /\ \A i \in 1..(Len(sorted_services) - 1) :
              sorted_services[i].cost >= sorted_services[i + 1].cost
        /\ Len(sorted_services) = Len(service_costs)
        /\ \A e \in {service_costs[i] : i \in 1..Len(service_costs)} :
              Count(sorted_services, e) = Count(service_costs, e)

C6_Witness ==
    /\ Processed
    /\ Len(sorted_services) = 2
    /\ sorted_services[1].cost > sorted_services[2].cost
    /\ sorted_services # service_costs

\* C7: an empty ResultsByTime from the daily query gives daily_cost 0.0 and
\* raises nothing: the handler goes on to aggregation, rendering and send.
C7_EmptyDailyIsZero ==
    (Count(calls, "daily") = 1 /\ "daily" \notin raised_by
        /\ daily_cost_response.ResultsByTime = <<>>) =>
        /\ daily_cost = Zero
        /\ error # "daily"
        /\ pc \in {"process", "build", "send", "done"}
        /\ Rendered => body.daily = Zero

C7_Witness ==
    /\ Count(calls, "daily") = 1
    /\ daily_cost_response.ResultsByTime = <<>>
    /\ pc = "done"
    /\ result.statusCode = 200
    /\ body.daily = Zero

\* C8 (as amended): no fallback address exists; the source and destination
\* handed to ses.send_email are the environment's values when set and None
\* when SENDER_EMAIL or RECIPIENT_EMAIL is absent.
C8_NoFallbackAddress ==
    Count(calls, "ses") = 1 =>
        /\ IF "SENDER_EMAIL" \in DOMAIN environ
              THEN ses_request.Source = environ["SENDER_EMAIL"]
              ELSE ses_request.Source = None
        /\ IF "RECIPIENT_EMAIL" \in DOMAIN environ
              THEN ses_request.ToAddresses = <<environ["RECIPIENT_EMAIL"]>>
              ELSE ses_request.ToAddresses = <<None>>

C8_Witness ==
    /\ Count(calls, "ses") = 1
    /\ DOMAIN environ = {"RECIPIENT_EMAIL"}
    /\ ses_request.Source = None
    /\ ses_request.ToAddresses[1] \in Addresses

\* C8 (original statement): the source and destination passed to the mail
\* collaborator are always defined address strings.
C8_Original ==
    Count(calls, "ses") = 1 =>
        /\ ses_request.Source # None
        /\ \A i \in 1..Len(ses_request.ToAddresses) : ses_request.ToAddresses[i] # None

\* C9: whatever the collaborators do, no exception escapes lambda_handler;
\* it ends by returning statusCode 200 or 500, and 200 exactly when
\* ses.send_email was called and returned.
C9_AlwaysStructuredResult ==
    /\ outcome # "raised"
    /\ pc = "done" =>
          /\ outcome = "returned"
          /\ result.statusCode \in {200, 500}
          /\ result.statusCode = 200 <=>
                (Count(calls, "ses") = 1 /\ "ses" \notin raised_by)
    /\ pc # "done" => (outcome = "running" /\ result = NoResult)

C9_Witness ==
    /\ pc = "done"
    /\ result.statusCode = 200
    /\ calls = AllQueries \o <<"ses">>
    /\ raised_by = {}

\* C10: an empty ResultsByTime from the month-to-date query is not
\* tolerated: the read of bucket 0 raises, the handler returns 500 and no
\* email is sent; no empty table is reported.
C10_EmptyMonthToDateFails ==
    (Count(calls, "mtd") = 1 /\ "mtd" \notin raised_by
        /\ service_breakdown.ResultsByTime = <<>>) =>
        /\ pc \notin {"build", "send"}
        /\ Count(calls, "ses") = 0
        /\ body = NoBody
        /\ pc = "done" => (result.statusCode = 500 /\ error # "none")
        /\ (pc = "done" /\ calls = AllQueries /\ raised_by = {}
               /\ daily_cost_response.ResultsByTime = <<>>) => error = "process"

C10_Witness ==
    /\ pc = "done"
    /\ error = "process"
    /\ service_breakdown.ResultsByTime = <<>>
    /\ daily_cost_response.ResultsByTime = <<>>
    /\ result.statusCode = 500

====
